---- MODULE Spec2Model ----
(***************************************************************************)
(* Model of scripts/generate_dev_icon.py (OwlUploader): the DEV badge      *)
(* compositor add_dev_badge, the manifest deriver generate_contents_json   *)
(* and the batch driver main.                                              *)
(*                                                                         *)
(* Four specifications share the variables:                               *)
(*   BadgeSpec  applies add_dev_badge to one input image (pure function),  *)
(*   Spec       is one run of main over every input environment,           *)
(*   FairSpec   is Spec plus the progress of a single-threaded script,     *)
(*   RerunSpec  is main run repeatedly on a directory that keeps the       *)
(*              output of the earlier runs.                                *)
(***************************************************************************)
EXTENDS Integers, Sequences, FiniteSets, TLC

(***************************************************************************)
(* Bounds of the model (not program constants).                            *)
(***************************************************************************)
\* longest "images" array of the enumerated source manifests
MaxImages == 2
\* number of runs of main in RerunSpec
MaxRuns == 2
\* number of source images the environment removes between runs
MaxEdits == 1
\* the probed pixels of an image are the multiples of width/ProbeGrid
ProbeGrid == 16

(***************************************************************************)
(* Program constants.                                                      *)
(***************************************************************************)
ICON_SIZES == <<16, 32, 64, 128, 256, 512, 1024>>

DevFolder == "Assets.xcassets/AppIcon-Dev.appiconset/"

Max(a, b) == IF a >= b THEN a ELSE b

SizeSet == {ICON_SIZES[i] : i \in 1..Len(ICON_SIZES)}

(***************************************************************************)
(* add_dev_badge: geometry.  int(size * 0.22) truncates a non-negative     *)
(* product, i.e. floor(22*size/100); for every width up to 4096 the        *)
(* double-precision product truncates to the same integer.                 *)
(***************************************************************************)
badge_h(size) == Max((size * 22) \div 100, 6)

badge_w(size) == Max((size * 42) \div 100, 12)

radius(size) == Max((badge_h(size) * 28) \div 100, 2)

\* mutant: the margin without its floor of one pixel
margin_unclamped(size) == (size * 4) \div 100

margin(size) == Max((size * 4) \div 100, 1)

x1(size) == size - margin(size) - badge_w(size)

y1(size) == size - margin(size) - badge_h(size)

x2(size) == size - margin(size)

y2(size) == size - margin(size)

font_size(size) == Max((badge_h(size) * 65) \div 100, 8)

BadgeGeometry(size) ==
    [size |-> size, badge_h |-> badge_h(size), badge_w |-> badge_w(size),
     radius |-> radius(size), margin |-> margin(size),
     x1 |-> x1(size), y1 |-> y1(size), x2 |-> x2(size), y2 |-> y2(size),
     font_size |-> font_size(size)]

(***************************************************************************)
(* Font environment: which link of the fallback chain resolves.            *)
(*   "Helvetica"  /System/Library/Fonts/Helvetica.ttc loads               *)
(*   "SFCompact"  Helvetica fails, /System/Library/Fonts/SFCompact.ttf     *)
(*   "Default"    both fail, ImageFont.load_default()                      *)
(***************************************************************************)
FontEnvs == {"Helvetica", "SFCompact", "Default"}

\* load_default() takes no size: the built-in font has its own fixed size
DefaultFontSize == 10

\* the font object the try/except chain yields: its face and pixel size
LoadFont(env, size) ==
    IF env = "Default"
    THEN [face |-> "Default", px |-> DefaultFontSize]
    ELSE [face |-> env, px |-> font_size(size)]

CeilDiv(a, b) == (a + b - 1) \div b

\* draw.textbbox((0, 0), "DEV", font): (left, top, right, bottom).  The
\* extents are font data: the advance of D+E+V and the cap height in
\* thousandths of the em, the top offset being ascent minus cap height.
TextBBox(font) ==
    LET adv == IF font.face = "SFCompact" THEN 1950 ELSE 2056
        cap == IF font.face = "SFCompact" THEN 705 ELSE 718
        asc == IF font.face = "SFCompact" THEN 780 ELSE 770
        top == ((asc - cap) * font.px) \div 1000
    IN  <<0, top, CeilDiv(adv * font.px, 1000),
          top + CeilDiv(cap * font.px, 1000)>>

\* tw, th, tx, ty of add_dev_badge and the pixel box the glyphs are drawn
\* in: [left, right) x [top, bottom).  tx and ty are floats in the code; the
\* rasteriser starts at their integer part.
TextBox(size, env) ==
    LET bbox == TextBBox(LoadFont(env, size))
        tw == bbox[3] - bbox[1]
        th == bbox[4] - bbox[2]
        tx == x1(size) + (badge_w(size) - tw) \div 2
        ty == y1(size) + (badge_h(size) - th) \div 2 - bbox[2]
    IN  [tw |-> tw, th |-> th, tx |-> tx, ty |-> ty,
         left |-> tx + bbox[1], top |-> ty + bbox[2],
         right |-> tx + bbox[3], bottom |-> ty + bbox[4]]

(***************************************************************************)
(* Pixels.  A pixel is <<r, g, b, a>>.  An image is a record               *)
(*   [width, art, layers, font]: artwork `art` of the given width with     *)
(*   `layers` badges composited over it, drawn in font environment `font`. *)
(***************************************************************************)
Artworks == {"black", "white", "clear"}

ArtPixel(art) ==
    CASE art = "black" -> <<0, 0, 0, 255>>
      [] art = "white" -> <<255, 255, 255, 255>>
      [] OTHER -> <<0, 0, 0, 0>>

SourceIcon(sz, art) == [width |-> sz, art |-> art, layers |-> 0, font |-> "none"]

\* draw.rounded_rectangle([(x1, y1), (x2, y2)], radius): both corners are
\* inclusive; the four corner squares are cut to quarter discs
InRoundedRect(size, x, y) ==
    LET r == radius(size)
        cx == IF x < x1(size) + r THEN x1(size) + r
              ELSE IF x > x2(size) - r THEN x2(size) - r ELSE x
        cy == IF y < y1(size) + r THEN y1(size) + r
              ELSE IF y > y2(size) - r THEN y2(size) - r ELSE y
    IN  /\ x1(size) <= x /\ x <= x2(size)
        /\ y1(size) <= y /\ y <= y2(size)
        /\ (x - cx) * (x - cx) + (y - cy) * (y - cy) <= r * r

\* draw.text((tx, ty), "DEV", fill=white): the glyph ink, taken as the whole
\* of its tight bounding box
InText(size, env, x, y) ==
    LET box == TextBox(size, env)
    IN  /\ box.left <= x /\ x < box.right
        /\ box.top <= y /\ y < box.bottom

\* the overlay layer: transparent, then the red badge, then the white label
OverlayPixel(size, env, x, y) ==
    IF InText(size, env, x, y) THEN <<255, 255, 255, 255>>
    ELSE IF InRoundedRect(size, x, y) THEN <<220, 38, 38, 230>>
    ELSE <<0, 0, 0, 0>>

ShiftForDiv255(a) == ((a \div 256) + a) \div 256

\* Image.alpha_composite(img, overlay) on one pixel (Pillow's integer
\* arithmetic, 7 bits of precision)
AlphaComposite(dstpx, srcpx) ==
    IF srcpx[4] = 0 THEN dstpx
    ELSE LET blend == dstpx[4] * (255 - srcpx[4])
             outa255 == srcpx[4] * 255 + blend
             coef1 == (srcpx[4] * 255 * 255 * 128) \div outa255
             coef2 == 255 * 128 - coef1
             ch(i) == ShiftForDiv255(srcpx[i] * coef1 + dstpx[i] * coef2
                                     + 128 * 128) \div 128
         IN  <<ch(1), ch(2), ch(3), ShiftForDiv255(outa255 + 128)>>

\* add_dev_badge(img) in font environment env: a new image, one more badge
add_dev_badge(img, env) ==
    [img EXCEPT !.layers = img.layers + 1, !.font = env]

RECURSIVE Pixel(_, _, _)
Pixel(img, x, y) ==
    IF img.layers = 0 THEN ArtPixel(img.art)
    ELSE AlphaComposite(Pixel([img EXCEPT !.layers = img.layers - 1], x, y),
                        OverlayPixel(img.width, img.font, x, y))

(***************************************************************************)
(* JSON.  A value is [t, items, raw]: its type, what Python's iteration    *)
(* over it yields (the members of an array, the keys of an object, the     *)
(* characters of a string) and, for a value the script never looks into,   *)
(* its text.  A member is [t, fields]: an object with its fields, or a     *)
(* string or number member.                                                *)
(***************************************************************************)
NoFields == [k \in {} |-> ""]

Obj(fields) == [t |-> "object", fields |-> fields]

StrMember == [t |-> "string", fields |-> NoFields]

NumMember == [t |-> "number", fields |-> NoFields]

JArray(items) == [t |-> "array", items |-> items, raw |-> ""]

JOther(t, items, raw) == [t |-> t, items |-> items, raw |-> raw]

\* the descriptors the enumerated manifests are built from: without and
\* with a "folder" of their own
Descriptors ==
    {Obj([k \in {"filename", "scale"} |->
              IF k = "filename" THEN "16.png" ELSE "1x"]),
     Obj([k \in {"filename", "folder", "idiom"} |->
              IF k = "filename" THEN "512.png"
              ELSE IF k = "folder" THEN "Elsewhere/" ELSE "mac"])}

SeqsUpTo(S, n) == UNION {[1..k -> S] : k \in 0..n}

InfoValue == JOther("object", <<StrMember, StrMember>>, "author xcode version 1")

\* top-level objects: key -> value
TopOf(images, withInfo) ==
    [k \in {"images"} \cup (IF withInfo THEN {"info"} ELSE {}) |->
        IF k = "images" THEN images ELSE InfoValue]

InfoOnly == [k \in {"info"} |-> InfoValue]

EmptyTop == [k \in {} |-> InfoValue]

\* the source Contents.json: absent, not JSON, a JSON array, a JSON object
File(state, top) == [state |-> state, top |-> top]

WellFormedManifests ==
    {File("object", TopOf(JArray(s), i)) :
        s \in SeqsUpTo(Descriptors, MaxImages), i \in BOOLEAN}

\* "images" present and not an array of objects
OddImages ==
    {JOther("null", <<>>, "null"),
     JOther("object", <<>>, "{}"),
     JOther("string", <<>>, ""),
     JOther("string", <<StrMember, StrMember>>, "ab"),
     JOther("object", <<StrMember>>, "{a: 1}"),
     JArray(<<NumMember>>)}

MalformedManifests ==
    {File("missing", EmptyTop), File("unparseable", EmptyTop),
     File("array", EmptyTop), File("object", EmptyTop),
     File("object", InfoOnly)}
    \cup {File("object", TopOf(v, TRUE)) : v \in OddImages}

Manifests == WellFormedManifests \cup MalformedManifests

(***************************************************************************)
(* generate_contents_json                                                  *)
(***************************************************************************)
\* mutant: a "folder" the descriptor already has is kept (setdefault)
dst_entry_setdefault(entry) ==
    Obj([k \in DOMAIN entry.fields \cup {"folder"} |->
            IF k \in DOMAIN entry.fields THEN entry.fields[k] ELSE DevFolder])

\* dst_entry = dict(entry); dst_entry["folder"] = ...
dst_entry(entry) ==
    Obj([k \in DOMAIN entry.fields \cup {"folder"} |->
            IF k = "folder" THEN DevFolder ELSE entry.fields[k]])

\* json.loads((SRC_DIR / "Contents.json").read_text()) raises
LoadsRaises(file) == file.state \in {"missing", "unparseable"}

\* src_contents["images"] raises: not subscriptable by a key, or no such key
ImagesRaises(file) ==
    \/ file.state = "array"
    \/ "images" \notin DOMAIN file.top

\* `for entry in ...` raises (not iterable), or dict(entry) raises for one
\* of the entries it yields
LoopRaises(images) ==
    \/ images.t \in {"null", "number"}
    \/ \E i \in 1..Len(images.items) : images.items[i].t # "object"

\* the result: the dict returned, or the exception that leaves the function
generate_contents_json(file) ==
    IF LoadsRaises(file) \/ ImagesRaises(file) THEN [ok |-> FALSE, top |-> EmptyTop]
    ELSE IF LoopRaises(file.top["images"]) THEN [ok |-> FALSE, top |-> EmptyTop]
    ELSE LET src_images == file.top["images"].items
         IN  [ok |-> TRUE,
              top |-> [k \in {"images"} |->
                         JArray([i \in 1..Len(src_images) |->
                                    dst_entry(src_images[i])])]]

(***************************************************************************)
(* State                                                                   *)
(***************************************************************************)
VARIABLES
    pc,          \* position in main: start, loop, generate, write, done, failed
    idx,         \* index into ICON_SIZES of the size the loop is at
    src,         \* SRC_DIR: size -> the image in <size>.png, where it exists
    manifest,    \* SRC_DIR/Contents.json
    fontEnv,     \* which font of the fallback chain resolves
    dirMode,     \* DST_DIR: ok, readonly (exists, refuses writes), uncreatable
    dstImages,   \* DST_DIR: size -> the image in <size>.png, where it exists
    dstContents, \* DST_DIR/Contents.json: [exists, indent, newline, top]
    contents,    \* the local `contents` of main, once generated
    console,     \* lines printed to standard output by the current run
    log,         \* file system calls of the current run, in order
    exitStatus,  \* running, zero, nonzero
    run,         \* number of the current run of main
    edits,       \* source images removed by the environment so far
    sameInputs,  \* the current run began with the inputs of the previous one
    dstBefore,   \* dstImages when the current run began
    prevOut,     \* output directory when the previous run ended
    icon,        \* BadgeSpec: the image handed to add_dev_badge
    badged,      \* BadgeSpec: the image it returned
    geom,        \* BadgeSpec: the geometry it computed
    probe        \* BadgeSpec: a pixel position <<x, y>> under observation

vars == <<pc, idx, src, manifest, fontEnv, dirMode, dstImages, dstContents,
          contents, console, log, exitStatus, run, edits, sameInputs,
          dstBefore, prevOut, icon, badged, geom, probe>>

envVars == <<manifest, fontEnv, dirMode>>

badgeVars == <<icon, badged, geom, probe>>

NoImages == [s \in {} |-> SourceIcon(16, "black")]

NoContents == [exists |-> FALSE, indent |-> 0, newline |-> FALSE, top |-> EmptyTop]

NoDict == [ok |-> FALSE, top |-> EmptyTop]

PngName(sz) == ToString(sz) \o ".png"

Event(op, path) == [op |-> op, path |-> path]

Line(tag, name) == [tag |-> tag, name |-> name]

(***************************************************************************)
(* BadgeSpec: add_dev_badge applied to one icon.                           *)
(***************************************************************************)
IdleBadge ==
    /\ icon = SourceIcon(16, "black")
    /\ badged = icon
    /\ geom = BadgeGeometry(16)
    /\ probe = <<0, 0>>

IdleMain ==
    /\ pc = "badge"
    /\ idx = 1
    /\ src = NoImages
    /\ manifest = File("missing", EmptyTop)
    /\ dirMode = "ok"
    /\ dstImages = NoImages
    /\ dstContents = NoContents
    /\ contents = NoDict
    /\ console = <<>>
    /\ log = <<>>
    /\ exitStatus = "running"
    /\ run = 1
    /\ edits = 0
    /\ sameInputs = FALSE
    /\ dstBefore = NoImages
    /\ prevOut = [images |-> NoImages, contents |-> NoContents, completed |-> FALSE]

\* the pixel positions observed in an icon of width w
Probes(w) == {(k * w) \div ProbeGrid : k \in 0..(ProbeGrid - 1)}

BadgeInit ==
    /\ IdleMain
    /\ fontEnv \in FontEnvs
    /\ \E sz \in SizeSet, art \in Artworks : icon = SourceIcon(sz, art)
    /\ badged = icon
    /\ geom = BadgeGeometry(icon.width)
    /\ probe \in Probes(icon.width) \X Probes(icon.width)

ApplyBadge ==
    /\ pc = "badge"
    /\ pc' = "badged"
    /\ badged' = add_dev_badge(icon, fontEnv)
    /\ geom' = BadgeGeometry(icon.width)
    /\ UNCHANGED <<idx, src, manifest, fontEnv, dirMode, dstImages, dstContents,
                   contents, console, log, exitStatus, run, edits,
                   sameInputs, dstBefore, prevOut, icon, probe>>

BadgeNext == ApplyBadge

BadgeSpec == BadgeInit /\ [][BadgeNext]_vars

(***************************************************************************)
(* main                                                                    *)
(***************************************************************************)
\* mutant: the manifest is derived before the loop over the sizes
PcOrderManifestFirst == <<"start", "generate", "loop", "write", "done">>

\* the order of main's phases
PcOrder == <<"start", "loop", "generate", "write", "done">>

NextPc(p) ==
    LET i == CHOOSE j \in 1..Len(PcOrder) : PcOrder[j] = p
    IN  PcOrder[i + 1]

\* mutant: the output directory is emptied when it is (re)created
MkdirClears(images) == [s \in {} |-> images[s]]

\* DST_DIR.mkdir(parents=True, exist_ok=True): what the directory holds after
MkdirKeeps(images) == images

\* mutant: the loop opens the output directory's copy when there is one
OpenImageFromDst(sz) == IF sz \in DOMAIN dstImages THEN dstImages[sz] ELSE src[sz]

\* the image the loop opens for size sz: Image.open(SRC_DIR / f"{sz}.png")
OpenImage(sz) == src[sz]

Abort ==
    /\ pc' = "failed"
    /\ exitStatus' = "nonzero"

\* line 91
Mkdir ==
    /\ pc = "start"
    /\ dirMode # "uncreatable"
    /\ pc' = NextPc("start")
    /\ dstImages' = MkdirKeeps(dstImages)
    /\ log' = Append(log, Event("mkdir", "DST"))
    /\ UNCHANGED <<idx, src, envVars, dstContents, contents, console, exitStatus,
                   run, edits, sameInputs, dstBefore, prevOut, badgeVars>>

MkdirFails ==
    /\ pc = "start"
    /\ dirMode = "uncreatable"
    /\ Abort
    /\ log' = Append(log, Event("mkdir", "DST"))
    /\ UNCHANGED <<idx, src, envVars, dstImages, dstContents, contents, console,
                   run, edits, sameInputs, dstBefore, prevOut, badgeVars>>

\* mutant: a missing source image raises instead of being skipped
SkipAborts ==
    /\ pc = "loop"
    /\ idx <= Len(ICON_SIZES)
    /\ ICON_SIZES[idx] \notin DOMAIN src
    /\ pc' = "failed"
    /\ exitStatus' = "nonzero"
    /\ log' = Append(log, Event("open", PngName(ICON_SIZES[idx])))
    /\ UNCHANGED <<idx, src, envVars, dstImages, dstContents, contents, console,
                   run, edits, sameInputs, dstBefore, prevOut, badgeVars>>

\* lines 95-97: the source image is absent
SkipSize ==
    /\ pc = "loop"
    /\ idx <= Len(ICON_SIZES)
    /\ ICON_SIZES[idx] \notin DOMAIN src
    /\ console' = Append(console, Line("skip", PngName(ICON_SIZES[idx])))
    /\ log' = Append(log, Event("exists", PngName(ICON_SIZES[idx])))
    /\ idx' = idx + 1
    /\ UNCHANGED <<pc, src, envVars, dstImages, dstContents, contents, exitStatus,
                   run, edits, sameInputs, dstBefore, prevOut, badgeVars>>

\* lines 99-103
BadgeSize ==
    /\ pc = "loop"
    /\ idx <= Len(ICON_SIZES)
    /\ ICON_SIZES[idx] \in DOMAIN src
    /\ dirMode = "ok"
    /\ LET sz == ICON_SIZES[idx]
           result == add_dev_badge(OpenImage(sz), fontEnv)
       IN  /\ dstImages' = [s \in DOMAIN dstImages \cup {sz} |->
                               IF s = sz THEN result ELSE dstImages[s]]
           /\ console' = Append(console, Line("ok", PngName(sz)))
           /\ log' = log \o <<Event("exists", PngName(sz)),
                              Event("open", PngName(sz)),
                              Event("save", PngName(sz))>>
    /\ idx' = idx + 1
    /\ UNCHANGED <<pc, src, envVars, dstContents, contents, exitStatus,
                   run, edits, sameInputs, dstBefore, prevOut, badgeVars>>

\* line 102 raises: the directory refuses the write
SaveFails ==
    /\ pc = "loop"
    /\ idx <= Len(ICON_SIZES)
    /\ ICON_SIZES[idx] \in DOMAIN src
    /\ dirMode # "ok"
    /\ Abort
    /\ log' = log \o <<Event("exists", PngName(ICON_SIZES[idx])),
                       Event("open", PngName(ICON_SIZES[idx]))>>
    /\ UNCHANGED <<idx, src, envVars, dstImages, dstContents, contents, console,
                   run, edits, sameInputs, dstBefore, prevOut, badgeVars>>

\* the for loop is exhausted
LoopEnds ==
    /\ pc = "loop"
    /\ idx > Len(ICON_SIZES)
    /\ pc' = NextPc("loop")
    /\ UNCHANGED <<idx, src, envVars, dstImages, dstContents, contents, console,
                   log, exitStatus, run, edits, sameInputs, dstBefore,
                   prevOut, badgeVars>>

\* line 105
GenerateContents ==
    /\ pc = "generate"
    /\ generate_contents_json(manifest).ok
    /\ contents' = generate_contents_json(manifest)
    /\ pc' = NextPc("generate")
    /\ log' = Append(log, Event("read_text", "Contents.json"))
    /\ UNCHANGED <<idx, src, envVars, dstImages, dstContents, console, exitStatus,
                   run, edits, sameInputs, dstBefore, prevOut, badgeVars>>

\* line 105 raises
GenerateFails ==
    /\ pc = "generate"
    /\ ~generate_contents_json(manifest).ok
    /\ Abort
    /\ log' = Append(log, Event("read_text", "Contents.json"))
    /\ UNCHANGED <<idx, src, envVars, dstImages, dstContents, contents, console,
                   run, edits, sameInputs, dstBefore, prevOut, badgeVars>>

\* json.dumps(contents, indent=2) + "\n"
Dumps(dict) == [exists |-> TRUE, indent |-> 2, newline |-> TRUE, top |-> dict.top]

\* lines 106-109, and the return of main
WriteContents ==
    /\ pc = "write"
    /\ dirMode = "ok"
    /\ dstContents' = Dumps(contents)
    /\ console' = console \o <<Line("ok", "Contents.json"), Line("done", "")>>
    /\ log' = Append(log, Event("write_text", "Contents.json"))
    /\ pc' = NextPc("write")
    /\ exitStatus' = "zero"
    /\ UNCHANGED <<idx, src, envVars, dstImages, contents, run, edits,
                   sameInputs, dstBefore, prevOut, badgeVars>>

\* line 107 raises
WriteFails ==
    /\ pc = "write"
    /\ dirMode # "ok"
    /\ Abort
    /\ UNCHANGED <<idx, src, envVars, dstImages, dstContents, contents, console,
                   log, run, edits, sameInputs, dstBefore, prevOut,
                   badgeVars>>

MainStep ==
    \/ Mkdir
    \/ MkdirFails
    \/ SkipSize
    \/ BadgeSize
    \/ SaveFails
    \/ LoopEnds
    \/ GenerateContents
    \/ GenerateFails
    \/ WriteContents
    \/ WriteFails

\* the state main starts in, whatever the directories hold
MainStart ==
    /\ pc = "start"
    /\ idx = 1
    /\ contents = NoDict
    /\ console = <<>>
    /\ log = <<>>
    /\ exitStatus = "running"

SourceDirs(art) ==
    {[sz \in S |-> SourceIcon(sz, art)] : S \in SUBSET SizeSet}

Init ==
    /\ MainStart
    /\ IdleBadge
    /\ src \in SourceDirs("black")
    /\ manifest \in Manifests
    /\ fontEnv \in FontEnvs
    /\ dirMode \in {"ok", "readonly", "uncreatable"}
    /\ dstImages = NoImages
    /\ dstContents = NoContents
    /\ run = 1
    /\ edits = 0
    /\ sameInputs = FALSE
    /\ dstBefore = NoImages
    /\ prevOut = [images |-> NoImages, contents |-> NoContents, completed |-> FALSE]

Next == MainStep

Spec == Init /\ [][Next]_vars

\* the script is one thread that runs until it returns or raises
FairSpec == Spec /\ WF_vars(Next)

(***************************************************************************)
(* RerunSpec: main run again on the same directories.  Between two runs    *)
(* the environment may remove one source image; the output directory is    *)
(* left as the earlier run left it.                                        *)
(***************************************************************************)
RerunManifests ==
    {File("object", TopOf(JArray(<<d>>), TRUE)) : d \in Descriptors}
    \cup {File("missing", EmptyTop)}

RerunInit ==
    /\ MainStart
    /\ IdleBadge
    /\ src \in SourceDirs("black")
    /\ manifest \in RerunManifests
    /\ fontEnv \in FontEnvs
    /\ dirMode \in {"ok", "readonly", "uncreatable"}
    /\ dstImages = NoImages
    /\ dstContents = NoContents
    /\ run = 1
    /\ edits = 0
    /\ sameInputs = FALSE
    /\ dstBefore = NoImages
    /\ prevOut = [images |-> NoImages, contents |-> NoContents, completed |-> FALSE]

\* main is started again: a fresh process on the directories as they are
Restart ==
    /\ pc \in {"done", "failed"}
    /\ run < MaxRuns
    /\ run' = run + 1
    /\ pc' = "start"
    /\ idx' = 1
    /\ contents' = NoDict
    /\ console' = <<>>
    /\ log' = <<>>
    /\ exitStatus' = "running"
    /\ dstBefore' = dstImages
    /\ prevOut' = [images |-> dstImages, contents |-> dstContents,
                   completed |-> (pc = "done")]

Rerun ==
    /\ Restart
    /\ sameInputs' = TRUE
    /\ UNCHANGED <<src, envVars, dstImages, dstContents, edits, badgeVars>>

RemoveAndRerun(sz) ==
    /\ Restart
    /\ edits < MaxEdits
    /\ sz \in DOMAIN src
    /\ src' = [s \in DOMAIN src \ {sz} |-> src[s]]
    /\ edits' = edits + 1
    /\ sameInputs' = FALSE
    /\ UNCHANGED <<envVars, dstImages, dstContents, badgeVars>>

RerunNext ==
    \/ MainStep
    \/ Rerun
    \/ \E sz \in SizeSet : RemoveAndRerun(sz)

RerunSpec == RerunInit /\ [][RerunNext]_vars

(***************************************************************************)
(* Properties                                                              *)
(***************************************************************************)
SrcItems == manifest.top["images"].items

DstItems == dstContents.top["images"].items

\* C1 (Spec): manifest round trip.  Once the derived Contents.json is
\* written, its images sequence is as long as the source's, and its i-th
\* descriptor has exactly the fields of the i-th source descriptor plus
\* "folder", every field with the source's value except "folder", which is
\* the Dev asset directory; this for every set of source images that exist,
\* so descriptors of skipped sizes are listed too.
C1_ManifestRoundTrip ==
    dstContents.exists =>
        /\ "images" \in DOMAIN dstContents.top
        /\ Len(DstItems) = Len(SrcItems)
        /\ \A i \in 1..Len(SrcItems) :
              /\ DstItems[i].t = "object"
              /\ DOMAIN DstItems[i].fields = DOMAIN SrcItems[i].fields \cup {"folder"}
              /\ DstItems[i].fields["folder"] = DevFolder
              /\ \A k \in DOMAIN SrcItems[i].fields \ {"folder"} :
                    DstItems[i].fields[k] = SrcItems[i].fields[k]

\* a completed run whose manifest lists 512.png, with a folder of its own,
\* although the source 512.png was missing and skipped
C1_Witness ==
    /\ pc = "done"
    /\ dstContents.exists
    /\ Len(SrcItems) = 2
    /\ 512 \notin DOMAIN src
    /\ \E i \in 1..Len(SrcItems) :
          /\ "folder" \in DOMAIN SrcItems[i].fields
          /\ SrcItems[i].fields["folder"] # DevFolder
          /\ DstItems[i].fields["filename"] = "512.png"

\* C2 (Spec): same top-level shape.  Every top-level key of the source
\* Contents.json other than "images" is in the derived Contents.json with
\* the same value.
C2_TopLevelKept ==
    dstContents.exists =>
        \A k \in DOMAIN manifest.top \ {"images"} :
            /\ k \in DOMAIN dstContents.top
            /\ dstContents.top[k] = manifest.top[k]

\* C3 as stated (RerunSpec): after a completed run the output directory
\* holds <size>.png exactly for the sizes the source directory holds,
\* whatever the output directory held before.
C3_OutputMirrorsSource ==
    pc = "done" =>
        \A sz \in SizeSet : sz \in DOMAIN dstImages <=> sz \in DOMAIN src

\* C3 amended (RerunSpec): after a completed run the output directory holds
\* <size>.png exactly for the sizes that the source directory holds or that
\* the output directory already held when the run began.
C3_OutputIsSourcePlusLeftovers ==
    pc = "done" =>
        \A sz \in SizeSet :
            sz \in DOMAIN dstImages <=>
                (sz \in DOMAIN src \/ sz \in DOMAIN dstBefore)

\* a completed second run that skipped a size and left its earlier output
C3_Witness ==
    /\ pc = "done"
    /\ run = 2
    /\ \E sz \in DOMAIN dstImages : sz \notin DOMAIN src
    /\ \E sz \in DOMAIN dstImages : sz \in DOMAIN src

\* C4 (RerunSpec): idempotence.  A run that completes on the inputs of the
\* completed run before it leaves the output directory with the same files
\* and the same content of each.
C4_Idempotent ==
    (pc = "done" /\ run >= 2 /\ sameInputs /\ prevOut.completed) =>
        /\ dstImages = prevOut.images
        /\ dstContents = prevOut.contents

\* a second completed run on unchanged inputs that wrote images and manifest
C4_Witness ==
    /\ pc = "done"
    /\ run = 2
    /\ sameInputs
    /\ prevOut.completed
    /\ Cardinality(DOMAIN dstImages) >= 2
    /\ dstContents.exists

\* the source manifest is a JSON object whose "images" is an array of objects
Readable ==
    /\ manifest.state = "object"
    /\ "images" \in DOMAIN manifest.top
    /\ manifest.top["images"].t = "array"
    /\ \A i \in 1..Len(SrcItems) : SrcItems[i].t = "object"

StatusLines(sz) == {i \in 1..Len(console) : console[i].name = PngName(sz)}

Completed ==
    /\ pc = "done"
    /\ exitStatus = "zero"
    /\ dstContents.exists
    /\ Len(console) = Len(ICON_SIZES) + 2
    /\ console[Len(console)] = Line("done", "")
    /\ \A sz \in SizeSet : Cardinality(StatusLines(sz)) = 1

\* C5 (FairSpec): with a readable source manifest and a writable output
\* directory, whichever source images exist, the run never aborts, visits a
\* size at most once while it runs, and eventually ends with every size
\* visited exactly once, exit status zero, the derived Contents.json written
\* and the completion message printed.
C5_AlwaysCompletes ==
    /\ []((Readable /\ dirMode = "ok") =>
            /\ pc # "failed"
            /\ exitStatus # "nonzero"
            /\ \A sz \in SizeSet : Cardinality(StatusLines(sz)) <= 1
            /\ (pc = "done" => Completed))
    /\ ((Readable /\ dirMode = "ok") ~> Completed)

\* a completed run in which no source image existed
C5_Witness ==
    /\ Completed
    /\ Readable
    /\ src = NoImages
    /\ Len(SrcItems) > 0

Saves == {i \in 1..Len(log) : log[i].op = "save"}

ManifestReads == {i \in 1..Len(log) : log[i].op = "read_text"}

ManifestWrites == {i \in 1..Len(log) : log[i].op = "write_text"}

\* C6 as stated (Spec): the source Contents.json is read before the first
\* output image is written, and the derived manifest is written after the
\* last one.
C6_ManifestReadFirst ==
    /\ \A i \in Saves : \E j \in ManifestReads : j < i
    /\ \A i \in Saves : \A j \in ManifestWrites : i < j

\* C6 amended (Spec): the source Contents.json is read after the last output
\* image is written, and the derived manifest is written after that read.
C6_ManifestReadAfterLoop ==
    /\ \A i \in Saves : \A j \in ManifestReads : i < j
    /\ \A i \in Saves \cup ManifestReads : \A j \in ManifestWrites : i < j
    /\ ManifestWrites # {} => ManifestReads # {}

\* a completed run that wrote images, read the manifest and wrote its own
C6_Witness ==
    /\ pc = "done"
    /\ Cardinality(Saves) >= 2
    /\ ManifestReads # {}
    /\ ManifestWrites # {}

\* the source Contents.json is missing, not parseable, or has no "images"
\* array
Malformed ==
    \/ manifest.state # "object"
    \/ "images" \notin DOMAIN manifest.top
    \/ manifest.top["images"].t # "array"

\* C7 (Spec): with a missing or malformed source Contents.json the run never
\* writes the output Contents.json, never prints the manifest line or the
\* completion line, and does not end with exit status zero.
C7_MalformedAborts ==
    Malformed =>
        /\ ~dstContents.exists
        /\ \A i \in 1..Len(console) : console[i].tag # "done"
        /\ \A i \in 1..Len(console) : console[i].name # "Contents.json"
        /\ exitStatus # "zero"
        /\ pc # "done"

\* C8 (BadgeSpec): badge geometry.  For an icon of width s in ICON_SIZES the
\* badge has its right and bottom edges at s - margin, its left and top
\* edges at s - margin - badge_w and s - margin - badge_h, with
\* margin = max(floor(0.04 s), 1), badge_w = max(floor(0.42 s), 12),
\* badge_h = max(floor(0.22 s), 6), and lies inside the canvas.
C8_BadgeInsideCanvas ==
    pc = "badged" =>
        LET s == icon.width
            m == IF 100 * 1 > 4 * s THEN 1 ELSE (4 * s) \div 100
            w == IF 100 * 12 > 42 * s THEN 12 ELSE (42 * s) \div 100
            h == IF 100 * 6 > 22 * s THEN 6 ELSE (22 * s) \div 100
        IN  /\ geom.x2 = s - m /\ geom.y2 = s - m
            /\ geom.x1 = s - m - w /\ geom.y1 = s - m - h
            /\ 0 <= geom.x1 /\ geom.x1 < geom.x2 /\ geom.x2 <= s
            /\ 0 <= geom.y1 /\ geom.y1 < geom.y2 /\ geom.y2 <= s

\* the 16-pixel icon, where every floor is in force
C8_Witness ==
    /\ pc = "badged"
    /\ icon.width = 16
    /\ geom.margin = 1 /\ geom.badge_w = 12 /\ geom.badge_h = 6
    /\ geom.x1 = 3 /\ geom.y1 = 9 /\ geom.x2 = 15 /\ geom.y2 = 15

OutsideBadge(x, y) ==
    ~(geom.x1 <= x /\ x <= geom.x2 /\ geom.y1 <= y /\ y <= geom.y2)

\* C9 (BadgeSpec): every pixel of the returned image outside the badge
\* rectangle [x1, x2] x [y1, y2] equals the source pixel.
C9_OutsideUnchanged ==
    (pc = "badged" /\ OutsideBadge(probe[1], probe[2])) =>
        Pixel(badged, probe[1], probe[2]) = Pixel(icon, probe[1], probe[2])

\* C10 (BadgeSpec): the font size does not exceed the badge height.
C10_FontFitsBadge ==
    pc = "badged" => geom.font_size <= geom.badge_h

====
